---- MODULE Spec2Model ----
(***************************************************************************)
(* Crypto50 ETF index: the App component (src/components/CandleChart.tsx,  *)
(* lines 162 onward) and the Binance service (src/constants.ts, lines 40   *)
(* onward).                                                                *)
(*                                                                         *)
(* State: the constituent store coinsRef, the index state etfState, the    *)
(* candle history etfHistoryRef, the flag isConnected, the WebSockets      *)
(* created so far, the snapshot fetches in flight, the wall clock, the two *)
(* interval timers and whether the component is still mounted.  The        *)
(* useState copies coins and candleData are written by setCoins and        *)
(* setCandleData and read by the render only; no handler reads them and    *)
(* they are left out.                                                      *)
(*                                                                         *)
(* JavaScript numbers are modelled as exact rationals extended with NaN,   *)
(* +Infinity and -Infinity; rounding of finite results is not modelled.    *)
(***************************************************************************)
EXTENDS Integers, Sequences, FiniteSets, TLC

(***************************************************************************)
(* Numbers: [k, n, d] with k in {"fin", "nan", "pinf", "ninf"}; a finite   *)
(* number is the fraction n/d in lowest terms with d > 0.                  *)
(***************************************************************************)
Abs(x) == IF x < 0 THEN -x ELSE x

RECURSIVE Gcd(_, _)
Gcd(a, b) == IF b = 0 THEN a ELSE Gcd(b, a % b)

NaN == [k |-> "nan", n |-> 0, d |-> 1]

PInf == [k |-> "pinf", n |-> 0, d |-> 1]

NInf == [k |-> "ninf", n |-> 0, d |-> 1]

Frac(n, d) ==
  LET s == IF d < 0 THEN -1 ELSE 1
      g == Gcd(Abs(n), Abs(d))
  IN [k |-> "fin", n |-> (s * n) \div g, d |-> (s * d) \div g]

Num(i) == [k |-> "fin", n |-> i, d |-> 1]

IsFin(x) == x.k = "fin"

\* the global isNaN on a number
isNaN(x) == x.k = "nan"

\* -1, 0 or 1; only for numbers that are not NaN
Sign(x) ==
  CASE x.k = "pinf" -> 1
    [] x.k = "ninf" -> -1
    [] OTHER -> IF x.n > 0 THEN 1 ELSE IF x.n < 0 THEN -1 ELSE 0

InfOf(s) == IF s > 0 THEN PInf ELSE NInf

\* IEEE 754 addition
Add(x, y) ==
  CASE isNaN(x) \/ isNaN(y) -> NaN
    [] IsFin(x) /\ IsFin(y) -> Frac(x.n * y.d + y.n * x.d, x.d * y.d)
    [] IsFin(x) -> y
    [] IsFin(y) -> x
    [] OTHER -> IF x.k = y.k THEN x ELSE NaN

Neg(x) ==
  CASE isNaN(x) -> NaN
    [] x.k = "pinf" -> NInf
    [] x.k = "ninf" -> PInf
    [] OTHER -> Frac(-x.n, x.d)

Sub(x, y) == Add(x, Neg(y))

\* IEEE 754 multiplication: 0 * Infinity is NaN
Mul(x, y) ==
  CASE isNaN(x) \/ isNaN(y) -> NaN
    [] IsFin(x) /\ IsFin(y) -> Frac(x.n * y.n, x.d * y.d)
    [] Sign(x) = 0 \/ Sign(y) = 0 -> NaN
    [] OTHER -> InfOf(Sign(x) * Sign(y))

\* IEEE 754 division: 0/0 and Infinity/Infinity are NaN, x/0 is an infinity
Div(x, y) ==
  CASE isNaN(x) \/ isNaN(y) -> NaN
    [] IsFin(x) /\ IsFin(y) ->
         IF y.n = 0
           THEN IF x.n = 0 THEN NaN ELSE InfOf(Sign(x))
           ELSE Frac(x.n * y.d, x.d * y.n)
    [] IsFin(x) -> Num(0)
    [] IsFin(y) -> InfOf(Sign(x) * (IF Sign(y) < 0 THEN -1 ELSE 1))
    [] OTHER -> NaN

\* x < y and x <= y as JavaScript compares: false when either is NaN
Lt(x, y) ==
  CASE isNaN(x) \/ isNaN(y) -> FALSE
    [] IsFin(x) /\ IsFin(y) -> x.n * y.d < y.n * x.d
    [] x.k = y.k -> FALSE
    [] OTHER -> x.k = "ninf" \/ y.k = "pinf"

Leq(x, y) == ~isNaN(x) /\ ~isNaN(y) /\ ~Lt(y, x)

\* Math.max and Math.min: NaN when either argument is NaN
MathMax(x, y) == IF isNaN(x) \/ isNaN(y) THEN NaN ELSE IF Lt(x, y) THEN y ELSE x

MathMin(x, y) == IF isNaN(x) \/ isNaN(y) THEN NaN ELSE IF Lt(y, x) THEN y ELSE x

\* truthiness of a number: 0 and NaN are falsy
Truthy(x) == ~isNaN(x) /\ Sign(x) # 0

(***************************************************************************)
(* Strings that carry numbers.  A field of a frame or of a ticker is a     *)
(* string; Undefined stands for a field that is absent.                    *)
(***************************************************************************)
Undefined == "undefined"

Decimal ==
  ("0" :> 0) @@ ("1" :> 1) @@ ("2" :> 2) @@ ("3" :> 3) @@ ("5" :> 5) @@
  ("9" :> 9) @@ ("-1" :> -1) @@ ("-10" :> -10) @@ ("90" :> 90) @@
  ("100" :> 100) @@ ("110" :> 110)

\* parseFloat: a decimal literal, "Infinity", "-Infinity", or NaN for anything
\* else (an absent field included)
parseFloat(s) ==
  CASE s \in DOMAIN Decimal -> Num(Decimal[s])
    [] s = "Infinity" -> PInf
    [] s = "-Infinity" -> NInf
    [] OTHER -> NaN

\* truthiness of a string field: absent and "" are falsy
TruthyStr(s) == s # Undefined /\ s # ""

(***************************************************************************)
(* Program constants                                                       *)
(***************************************************************************)
BASE_INDEX_VALUE == 1000

CandleMs == 60000

CalcMs == 1000

PollMs == 60000

MaxCandles == 100

TopN == 50

RebalanceHour == 16

(***************************************************************************)
(* Symbols are sequences of name parts, so that endsWith, includes and     *)
(* replace act on them: <<"BTC", "USDT">> is BTCUSDT.                      *)
(***************************************************************************)
Includes(sym, part) == \E i \in 1..Len(sym) : sym[i] = part

EndsWith(sym, part) == Len(sym) > 0 /\ sym[Len(sym)] = part

\* String.prototype.replace(part, ''): the first occurrence only
ReplaceFirst(sym, part) ==
  IF ~Includes(sym, part) THEN sym
  ELSE LET i == CHOOSE j \in 1..Len(sym) :
                  sym[j] = part /\ \A m \in 1..(j - 1) : sym[m] # part
       IN SubSeq(sym, 1, i - 1) \o SubSeq(sym, i + 1, Len(sym))

(***************************************************************************)
(* binanceService: fetchTop50Coins                                         *)
(***************************************************************************)
Eligible(ticker) ==
  /\ EndsWith(ticker.symbol, "USDT")
  /\ ~Includes(ticker.symbol, "UP")
  /\ ~Includes(ticker.symbol, "DOWN")
  /\ ~Includes(ticker.symbol, "BULL")
  /\ ~Includes(ticker.symbol, "BEAR")
  /\ ~Includes(ticker.symbol, "USDC")
  /\ ~Includes(ticker.symbol, "FDUSD")

\* the comparator of the sort: b.quoteVolume - a.quoteVolume > 0 puts b first
Before(b, a) ==
  Lt(Num(0), Sub(parseFloat(b.quoteVolume), parseFloat(a.quoteVolume)))

RECURSIVE InsertSorted(_, _)
InsertSorted(sorted, t) ==
  IF sorted = <<>> THEN <<t>>
  ELSE IF Before(t, Head(sorted))
         THEN <<t>> \o sorted
         ELSE <<Head(sorted)>> \o InsertSorted(Tail(sorted), t)

\* Array.prototype.sort is stable: equal volumes keep their order
RECURSIVE SortByVolume(_)
SortByVolume(s) ==
  IF s = <<>> THEN <<>>
  ELSE InsertSorted(SortByVolume(SubSeq(s, 1, Len(s) - 1)), s[Len(s)])

FilterEligible(s) == SelectSeq(s, Eligible)

\* a fetch that answers a failure with a listing it had in stock
fetchTop50CoinsFallback(resp) ==
  IF ~resp.ok
    THEN << [symbol |-> <<"BTC", "USDT">>, priceChangePercent |-> "2",
             lastPrice |-> "100", quoteVolume |-> "3"] >>
    ELSE LET sorted == SortByVolume(FilterEligible(resp.data))
         IN SubSeq(sorted, 1, IF Len(sorted) < TopN THEN Len(sorted) ELSE TopN)

\* resp.ok is false when the request, the status check or the JSON parse
\* throws: the catch returns []
fetchTop50Coins(resp) ==
  IF ~resp.ok THEN <<>>
  ELSE LET sorted == SortByVolume(FilterEligible(resp.data))
       IN SubSeq(sorted, 1, IF Len(sorted) < TopN THEN Len(sorted) ELSE TopN)

(***************************************************************************)
(* App: calculateEtfPrice                                                  *)
(***************************************************************************)
\* the running sum of a forEach or a reduce that starts at 0, left to right
RECURSIVE Sum(_)
Sum(xs) ==
  IF xs = <<>> THEN Num(0)
  ELSE Add(Sum(SubSeq(xs, 1, Len(xs) - 1)), xs[Len(xs)])

WeightedChanges(cs) == [i \in 1..Len(cs) |-> Mul(cs[i].change24h, cs[i].weight)]

Weights(cs) == [i \in 1..Len(cs) |-> cs[i].weight]

\* the price of the comment at lines 171-173: the weighted sum is not
\* divided by the total weight
calculateEtfPriceUnnormalised(cs, basePrice) ==
  IF Len(cs) = 0 THEN basePrice
  ELSE Mul(basePrice, Add(Num(1), Div(Sum(WeightedChanges(cs)), Num(100))))

calculateEtfPrice(cs, basePrice) ==
  IF Len(cs) = 0 THEN basePrice
  ELSE LET weightedChangeSum == Sum(WeightedChanges(cs))
           totalWeight == Sum(Weights(cs))
           avgChange == Div(weightedChangeSum,
                            IF Truthy(totalWeight) THEN totalWeight ELSE Num(1))
       IN Mul(basePrice, Add(Num(1), Div(avgChange, Num(100))))

(***************************************************************************)
(* App: init, from the resolved snapshot to the new store                  *)
(***************************************************************************)
TotalVol(top50) == Sum([i \in 1..Len(top50) |-> parseFloat(top50[i].quoteVolume)])

MakeCoin(t, totalVol) ==
  [symbol |-> ReplaceFirst(t.symbol, "USDT"),
   pair |-> t.symbol,
   price |-> parseFloat(t.lastPrice),
   change24h |-> parseFloat(t.priceChangePercent),
   volume24h |-> parseFloat(t.quoteVolume),
   weight |-> Div(parseFloat(t.quoteVolume), totalVol)]

InitialCoins(top50) ==
  [i \in 1..Len(top50) |-> MakeCoin(top50[i], TotalVol(top50))]

\* the stream names of the new socket: c.symbol + 'USDT'
Symbols(cs) == [i \in 1..Len(cs) |-> Append(cs[i].symbol, "USDT")]

(***************************************************************************)
(* App: handleWsMessage                                                    *)
(***************************************************************************)
PercentChange(data) ==
  IF data.P # Undefined THEN parseFloat(data.P)
  ELSE IF TruthyStr(data.c) /\ TruthyStr(data.o)
         THEN LET openPrice == parseFloat(data.o)
                  closePrice == parseFloat(data.c)
              IN IF openPrice # Num(0)
                   THEN Mul(Div(Sub(closePrice, openPrice), openPrice), Num(100))
                   ELSE Num(0)
         ELSE Num(0)

\* findIndex: the first index whose pair is the symbol, 0 for none
FindIndex(cs, symbol) ==
  IF \E i \in 1..Len(cs) : cs[i].pair = symbol
    THEN CHOOSE i \in 1..Len(cs) :
           cs[i].pair = symbol /\ \A j \in 1..(i - 1) : cs[j].pair # symbol
    ELSE 0

\* the validity check of the update
Valid(price, percentChange) == ~isNaN(price) /\ ~isNaN(percentChange)

\* a handler that adds a constituent for a pair it does not know
handleWsMessageUpsert(cs, data) ==
  LET price == parseFloat(data.c)
      percentChange == PercentChange(data)
      index == FindIndex(cs, data.s)
  IN IF ~Valid(price, percentChange) THEN cs
     ELSE IF index # 0
       THEN [cs EXCEPT ![index] =
               [@ EXCEPT !.price = price, !.change24h = percentChange]]
       ELSE Append(cs, [symbol |-> ReplaceFirst(data.s, "USDT"), pair |-> data.s,
                        price |-> price, change24h |-> percentChange,
                        volume24h |-> Num(0), weight |-> Num(0)])

\* a handler that adds the frame's change to the stored change
handleWsMessageAccumulate(cs, data) ==
  LET price == parseFloat(data.c)
      percentChange == PercentChange(data)
      index == FindIndex(cs, data.s)
  IN IF index # 0 /\ Valid(price, percentChange)
       THEN [cs EXCEPT ![index] =
               [@ EXCEPT !.price = price, !.change24h = Add(@, percentChange)]]
       ELSE cs

\* a handler that writes the price and leaves the change of an earlier source
handleWsMessagePriceOnly(cs, data) ==
  LET price == parseFloat(data.c)
      percentChange == PercentChange(data)
      index == FindIndex(cs, data.s)
  IN IF index # 0 /\ Valid(price, percentChange)
       THEN [cs EXCEPT ![index] = [@ EXCEPT !.price = price]]
       ELSE cs

\* a handler that writes the frame's values to every constituent
handleWsMessageBroadcast(cs, data) ==
  LET price == parseFloat(data.c)
      percentChange == PercentChange(data)
      index == FindIndex(cs, data.s)
  IN IF index # 0 /\ Valid(price, percentChange)
       THEN [i \in 1..Len(cs) |->
               [cs[i] EXCEPT !.price = price, !.change24h = percentChange]]
       ELSE cs

handleWsMessage(cs, data) ==
  LET price == parseFloat(data.c)
      percentChange == PercentChange(data)
      index == FindIndex(cs, data.s)
  IN IF index # 0 /\ Valid(price, percentChange)
       THEN [cs EXCEPT ![index] =
               [@ EXCEPT !.price = price, !.change24h = percentChange]]
       ELSE cs

(***************************************************************************)
(* App: updateCandleHistory                                                *)
(***************************************************************************)
TimeBucket(t) == (t \div CandleMs) * CandleMs

\* an aggregator that opens a candle for every sample
updateCandleHistoryAlwaysPush(history, t, price) ==
  LET n == Len(history)
      pushed == Append(history, [time |-> TimeBucket(t),
                                 open |-> IF n > 0 THEN history[n].close ELSE price,
                                 high |-> price, low |-> price, close |-> price])
  IN IF Len(pushed) > MaxCandles THEN Tail(pushed) ELSE pushed

\* an aggregator that drops the newest candle (pop) where the code drops the
\* oldest (shift)
updateCandleHistoryPop(history, t, price) ==
  LET timeBucket == TimeBucket(t)
      n == Len(history)
  IN IF n > 0 /\ history[n].time = timeBucket
       THEN [history EXCEPT ![n] =
               [@ EXCEPT !.high = MathMax(@, price),
                         !.low = MathMin(@, price),
                         !.close = price]]
       ELSE LET pushed == Append(history, [time |-> timeBucket,
                                           open |-> IF n > 0 THEN history[n].close ELSE price,
                                           high |-> price, low |-> price, close |-> price])
            IN IF Len(pushed) > MaxCandles
                 THEN SubSeq(pushed, 1, Len(pushed) - 1)
                 ELSE pushed

\* an aggregator that opens every new candle at the sample price
updateCandleHistoryReopen(history, t, price) ==
  LET timeBucket == TimeBucket(t)
      n == Len(history)
  IN IF n > 0 /\ history[n].time = timeBucket
       THEN [history EXCEPT ![n] =
               [@ EXCEPT !.high = MathMax(@, price),
                         !.low = MathMin(@, price),
                         !.close = price]]
       ELSE LET pushed == Append(history, [time |-> timeBucket, open |-> price,
                                           high |-> price, low |-> price, close |-> price])
            IN IF Len(pushed) > MaxCandles THEN Tail(pushed) ELSE pushed

updateCandleHistory(history, t, price) ==
  LET timeBucket == TimeBucket(t)
      n == Len(history)
  IN IF n > 0 /\ history[n].time = timeBucket
       THEN [history EXCEPT ![n] =
               [@ EXCEPT !.high = MathMax(@, price),
                         !.low = MathMin(@, price),
                         !.close = price]]
       ELSE LET newCandle == [time |-> timeBucket,
                              open |-> IF n > 0 THEN history[n].close ELSE price,
                              high |-> price,
                              low |-> price,
                              close |-> price]
                pushed == Append(history, newCandle)
            IN IF Len(pushed) > MaxCandles THEN Tail(pushed) ELSE pushed

(***************************************************************************)
(* App: the state update of the calculation loop                           *)
(***************************************************************************)
\* a state update that keeps the price it had
NextEtfStateKeepPrice(prev, calculatedPrice, t) ==
  [currentPrice |-> prev.currentPrice,
   openPrice |-> Num(BASE_INDEX_VALUE),
   highPrice |-> MathMax(prev.highPrice, calculatedPrice),
   lowPrice |-> MathMin(prev.lowPrice, calculatedPrice),
   change24h |-> Sub(calculatedPrice, Num(BASE_INDEX_VALUE)),
   changePercent |-> Mul(Div(Sub(calculatedPrice, Num(BASE_INDEX_VALUE)),
                             Num(BASE_INDEX_VALUE)), Num(100)),
   lastUpdate |-> t]

NextEtfState(prev, calculatedPrice, t) ==
  LET newHigh == MathMax(prev.highPrice, calculatedPrice)
      newLow == MathMin(prev.lowPrice, calculatedPrice)
      changeVal == Sub(calculatedPrice, Num(BASE_INDEX_VALUE))
      changePct == Mul(Div(changeVal, Num(BASE_INDEX_VALUE)), Num(100))
  IN [currentPrice |-> calculatedPrice,
      openPrice |-> Num(BASE_INDEX_VALUE),
      highPrice |-> newHigh,
      lowPrice |-> newLow,
      change24h |-> changeVal,
      changePercent |-> changePct,
      lastUpdate |-> t]

(***************************************************************************)
(* Date: the UTC hour and minute of a time in milliseconds                 *)
(***************************************************************************)
getUTCHours(t) == (t \div 3600000) % 24

getUTCMinutes(t) == (t \div 60000) % 60

(***************************************************************************)
(* Bounds and inputs of the model                                          *)
(***************************************************************************)
\* how many times the clock advances
MaxAdvances == 3

\* how many frames the sockets deliver
MaxFrames == 2

\* by how much a timer callback may miss the instant it is due at
JitterMs == 2

\* how many times the calculation loop runs
MaxTicks == 2

\* for how many candle periods the candle aggregator is sampled
MaxSpan == 3

\* for how many candle periods the long run lasts
LongRun == 102

\* how many constituents the stores given to calculateEtfPrice hold at most
MaxBasket == 2

\* how many samples the candle aggregator is given from the epoch
MaxSamples == 3

\* how many calls of init complete
MaxBootstraps == 2

\* the component mounts at 15:58:59.999 UTC
StartTime == RebalanceHour * 3600000 - PollMs - (JitterMs \div 2)

\* the instants the clock is read at: the mount, then just before and just
\* after each whole poll period since the mount
Instant(k) ==
  StartTime + ((k + 1) \div 2) * PollMs + (IF k > 0 /\ k % 2 = 0 THEN JitterMs ELSE 0)

BTCUSDT == <<"BTC", "USDT">>

ETHUSDT == <<"ETH", "USDT">>

BNBUSDT == <<"BNB", "USDT">>

Ticker(sym, chg, price, vol) ==
  [symbol |-> sym, priceChangePercent |-> chg, lastPrice |-> price, quoteVolume |-> vol]

\* what /ticker/24hr may answer: a failure, a listing out of order with pairs
\* the filter rejects, a listing with another basket, a listing without volume
Responses ==
  { [ok |-> FALSE, data |-> <<>>],
    [ok |-> TRUE,
     data |-> << Ticker(<<"BTC", "UP", "USDT">>, "5", "100", "9"),
                 Ticker(ETHUSDT, "-1", "100", "1"),
                 Ticker(<<"ETH", "BTC">>, "2", "1", "5"),
                 Ticker(BTCUSDT, "2", "100", "3") >>],
    [ok |-> TRUE,
     data |-> << Ticker(ETHUSDT, "2", "100", "1"),
                 Ticker(BNBUSDT, "0", "100", "1") >>],
    [ok |-> TRUE,
     data |-> << Ticker(BTCUSDT, "2", "100", "0"),
                 Ticker(ETHUSDT, "-1", "100", "0") >>] }

\* the c, o and P fields of the frames a stream may deliver
FrameShapes ==
  { [c |-> "110", o |-> "100", P |-> Undefined],
    [c |-> "110", o |-> "0", P |-> Undefined],
    [c |-> "90", o |-> Undefined, P |-> "-10"],
    [c |-> "abc", o |-> "100", P |-> Undefined],
    [c |-> "Infinity", o |-> "100", P |-> Undefined] }

Range(s) == {s[i] : i \in 1..Len(s)}

\* a socket delivers frames of the streams it subscribed to
FramesOf(sock) ==
  { [s |-> sym, c |-> sh.c, o |-> sh.o, P |-> sh.P] :
      sym \in Range(sock.streams), sh \in FrameShapes }

NoFrame == [s |-> <<>>, c |-> Undefined, o |-> Undefined, P |-> Undefined]

(***************************************************************************)
(* State                                                                   *)
(***************************************************************************)
VARIABLES
  now,            \* Date.now()
  calcDue,        \* when the 1 s interval is next due
  pollDue,        \* when the 60 s interval is next due
  pending,        \* calls of init awaiting fetchTop50Coins
  coinsRef,       \* coinsRef.current, the constituent store
  etfState,       \* the index state (useState)
  etfHistoryRef,  \* etfHistoryRef.current, also given to setCandleData
  isConnected,    \* the connectivity flag (useState)
  sockets,        \* the WebSockets created so far, in order of creation
  advances,       \* how many times the clock has advanced
  nFrames,        \* frames delivered so far
  nTicks,         \* runs of the calculation loop so far
  rebalanceAt,    \* the times at which the poll called init
  mounted,        \* FALSE once the effect cleanups have run
  last            \* the last step taken

vars ==
  <<now, calcDue, pollDue, pending, coinsRef, etfState, etfHistoryRef,
    isConnected, sockets, advances, nFrames, nTicks, rebalanceAt, mounted, last>>

\* sock is the socket that delivered the frame, 0 when the step is no frame
Step(op) == [op |-> op, frame |-> NoFrame, rep |-> FALSE, sock |-> 0]

InitialEtfState(t) ==
  [currentPrice |-> Num(BASE_INDEX_VALUE),
   openPrice |-> Num(BASE_INDEX_VALUE),
   highPrice |-> Num(BASE_INDEX_VALUE),
   lowPrice |-> Num(BASE_INDEX_VALUE),
   change24h |-> Num(0),
   changePercent |-> Num(0),
   lastUpdate |-> t]

\* after the first render and its effects: init has been called once and
\* awaits its snapshot, both intervals are set
Init ==
  /\ now = StartTime
  /\ calcDue = StartTime + CalcMs
  /\ pollDue = StartTime + PollMs
  /\ pending = 1
  /\ coinsRef = <<>>
  /\ etfState = InitialEtfState(StartTime)
  /\ etfHistoryRef = <<>>
  /\ isConnected = FALSE
  /\ sockets = <<>>
  /\ advances = 0
  /\ nFrames = 0
  /\ nTicks = 0
  /\ rebalanceAt = <<>>
  /\ mounted = TRUE
  /\ last = Step("mount")

\* time passes; a callback that is due may run late
Advance ==
  /\ advances < MaxAdvances
  /\ advances' = advances + 1
  /\ now' = Instant(advances + 1)
  /\ last' = Step("none")
  /\ UNCHANGED <<calcDue, pollDue, pending, coinsRef, etfState,
                 etfHistoryRef, isConnected, sockets, nFrames, nTicks, rebalanceAt, mounted>>

\* when a repeating timer that ran at t is next due: one period after it ran,
\* or one period after it was due when the engine keeps the timer's phase
NextDue(due, t, period) ==
  {t + period, t + period - ((t - due) % period)}

\* init resumes after await fetchTop50Coins()
InitComplete(resp) ==
  LET top50 == fetchTop50Coins(resp)
      initialCoins == InitialCoins(top50)
  IN /\ pending > 0
     /\ Len(sockets) < MaxBootstraps
     /\ pending' = pending - 1
     /\ coinsRef' = initialCoins
     /\ sockets' = Append(sockets, [streams |-> Symbols(initialCoins), state |-> "connecting"])
     /\ last' = Step(IF resp.ok THEN "init" ELSE "initFailed")
     /\ UNCHANGED <<now, calcDue, pollDue, etfState, etfHistoryRef, isConnected,
                    advances, nFrames, nTicks, rebalanceAt, mounted>>

\* the rebalance check, every minute
PollTick ==
  /\ mounted
  /\ now >= pollDue
  /\ \E due \in NextDue(pollDue, now, PollMs) : pollDue' = due
  /\ IF getUTCHours(now) = RebalanceHour /\ getUTCMinutes(now) = 0
       THEN /\ pending' = pending + 1
            /\ rebalanceAt' = Append(rebalanceAt, now)
       ELSE UNCHANGED <<pending, rebalanceAt>>
  /\ last' = Step("none")
  /\ UNCHANGED <<now, calcDue, coinsRef, etfState, etfHistoryRef,
                 isConnected, sockets, advances, nFrames, nTicks, mounted>>

\* the ETF calculation loop, every second
CalcTick ==
  /\ mounted
  /\ now >= calcDue
  /\ nTicks < MaxTicks
  /\ nTicks' = nTicks + 1
  /\ \E due \in NextDue(calcDue, now, CalcMs) : calcDue' = due
  /\ IF Len(coinsRef) = 0
       THEN UNCHANGED <<etfState, etfHistoryRef>>
       ELSE LET calculatedPrice == calculateEtfPrice(coinsRef, Num(BASE_INDEX_VALUE))
            IN /\ etfState' = NextEtfState(etfState, calculatedPrice, now)
               /\ etfHistoryRef' = updateCandleHistory(etfHistoryRef, now, calculatedPrice)
  /\ last' = Step("tick")
  /\ UNCHANGED <<now, pollDue, pending, coinsRef, isConnected, sockets, advances, nFrames,
                 rebalanceAt, mounted>>

\* ws.onopen; setIsConnected does nothing once the component is unmounted
WsOpen(i) ==
  /\ sockets[i].state = "connecting"
  /\ sockets' = [sockets EXCEPT ![i].state = "open"]
  /\ isConnected' = (IF mounted THEN TRUE ELSE isConnected)
  /\ last' = Step("none")
  /\ UNCHANGED <<now, calcDue, pollDue, pending, coinsRef, etfState,
                 etfHistoryRef, advances, nFrames, nTicks, rebalanceAt, mounted>>

\* ws.onclose: the server or the network ends the connection; a closed socket
\* delivers nothing more and its subscription is forgotten
WsClose(i) ==
  /\ sockets[i].state \in {"connecting", "open"}
  /\ sockets' = [sockets EXCEPT ![i] = [streams |-> <<>>, state |-> "closed"]]
  /\ isConnected' = (IF mounted THEN FALSE ELSE isConnected)
  /\ last' = Step("none")
  /\ UNCHANGED <<now, calcDue, pollDue, pending, coinsRef, etfState,
                 etfHistoryRef, advances, nFrames, nTicks, rebalanceAt, mounted>>

\* ws.onmessage: JSON.parse and handleWsMessage
WsMessage(i, data) ==
  /\ sockets[i].state = "open"
  /\ nFrames < MaxFrames
  /\ nFrames' = nFrames + 1
  /\ coinsRef' = handleWsMessage(coinsRef, data)
  /\ last' = [op |-> "frame", frame |-> data,
              rep |-> (last.op = "frame" /\ last.frame = data), sock |-> i]
  /\ UNCHANGED <<now, calcDue, pollDue, pending, etfState, etfHistoryRef,
                 isConnected, sockets, advances, nTicks, rebalanceAt, mounted>>

\* the component unmounts: the cleanups of the two effects run, and they
\* clear the two intervals (a cleared timer is due at no time, written 0);
\* nothing else is torn down
Unmount ==
  /\ mounted
  /\ mounted' = FALSE
  /\ calcDue' = 0
  /\ pollDue' = 0
  /\ last' = Step("unmount")
  /\ UNCHANGED <<now, pending, coinsRef, etfState, etfHistoryRef,
                 isConnected, sockets, advances, nFrames, nTicks, rebalanceAt>>

Next ==
  \/ Advance
  \/ \E resp \in Responses : InitComplete(resp)
  \/ PollTick
  \/ CalcTick
  \/ \E i \in 1..Len(sockets) : WsOpen(i)
  \/ \E i \in 1..Len(sockets) : WsClose(i)
  \/ \E i \in 1..Len(sockets) : \E data \in FramesOf(sockets[i]) : WsMessage(i, data)
  \/ Unmount

Spec == Init /\ [][Next]_vars

(***************************************************************************)
(* The feed on its own: from the state in which the first poll, run late   *)
(* at 16:00:00.001, has called init while the init of the mount still      *)
(* awaits its snapshot, the two bootstraps complete and their sockets open, *)
(* close and deliver frames; the clock stands still.                       *)
(***************************************************************************)
InitFeed ==
  /\ now = Instant(2)
  /\ calcDue = StartTime + CalcMs
  /\ pollDue = Instant(2) + PollMs
  /\ pending = 2
  /\ coinsRef = <<>>
  /\ etfState = InitialEtfState(StartTime)
  /\ etfHistoryRef = <<>>
  /\ isConnected = FALSE
  /\ sockets = <<>>
  /\ advances = 2
  /\ nFrames = 0
  /\ nTicks = 0
  /\ rebalanceAt = <<Instant(2)>>
  /\ mounted = TRUE
  /\ last = Step("none")

NextFeed ==
  \/ \E resp \in Responses : InitComplete(resp)
  \/ \E i \in 1..Len(sockets) : WsOpen(i)
  \/ \E i \in 1..Len(sockets) : WsClose(i)
  \/ \E i \in 1..Len(sockets) : \E data \in FramesOf(sockets[i]) : WsMessage(i, data)

SpecFeed == InitFeed /\ [][NextFeed]_vars

(***************************************************************************)
(* The candle aggregator on its own: updateCandleHistory is given the      *)
(* samples (Date.now(), price) of a calculation loop whose prices are      *)
(* drawn from SamplePrices.                                                *)
(***************************************************************************)
SamplePrices == {Num(990), Num(BASE_INDEX_VALUE), Num(1010)}

ElapseSteps == {CandleMs \div 2, CandleMs, 2 * CandleMs}

Elapse(d) ==
  /\ now + d <= StartTime + MaxSpan * CandleMs
  /\ now' = now + d
  /\ last' = Step("none")
  /\ UNCHANGED <<calcDue, pollDue, pending, coinsRef, etfState, etfHistoryRef,
                 isConnected, sockets, advances, nFrames, nTicks, rebalanceAt, mounted>>

\* one sample per reading of the clock: two runs of the loop are a second apart
Sample(price) ==
  /\ last.op # "tick"
  /\ etfHistoryRef' = updateCandleHistory(etfHistoryRef, now, price)
  /\ last' = Step("tick")
  /\ UNCHANGED <<now, calcDue, pollDue, pending, coinsRef, etfState,
                 isConnected, sockets, advances, nFrames, nTicks, rebalanceAt, mounted>>

NextCandles ==
  \/ \E d \in ElapseSteps : Elapse(d)
  \/ \E price \in SamplePrices : Sample(price)

SpecCandles == Init /\ [][NextCandles]_vars

(***************************************************************************)
(* The long run of the candle aggregator: a sample of the base price every *)
(* half or whole candle period, for more periods than the history holds.   *)
(***************************************************************************)
SampleAfter(d) ==
  /\ now + d <= StartTime + LongRun * CandleMs
  /\ now' = now + d
  /\ etfHistoryRef' = updateCandleHistory(etfHistoryRef, now + d, Num(BASE_INDEX_VALUE))
  /\ last' = Step("tick")
  /\ UNCHANGED <<calcDue, pollDue, pending, coinsRef, etfState,
                 isConnected, sockets, advances, nFrames, nTicks, rebalanceAt, mounted>>

NextLongRun == \E d \in {CandleMs \div 2, CandleMs} : SampleAfter(d)

SpecLongRun == Init /\ [][NextLongRun]_vars

(***************************************************************************)
(* calculateEtfPrice on its own: the store holds any basket of at most      *)
(* MaxBasket constituents whose weights and changes are drawn from          *)
(* PriceWeights and PriceChanges, and the calculation loop runs on it.      *)
(***************************************************************************)
PriceWeights == {Num(0), Frac(3, 5), Frac(2, 5), Frac(1, 4), NaN}

PriceChanges == {Num(2), Num(-1), Num(0), PInf}

PricePairs == <<BTCUSDT, ETHUSDT, BNBUSDT, <<"SOL", "USDT">>>>

PriceCoin(i, weight, change24h) ==
  [symbol |-> ReplaceFirst(PricePairs[i], "USDT"),
   pair |-> PricePairs[i],
   price |-> Num(100),
   change24h |-> change24h,
   volume24h |-> Num(1),
   weight |-> weight]

InitPrice ==
  /\ now = StartTime + CalcMs
  /\ calcDue = StartTime + CalcMs
  /\ pollDue = StartTime + PollMs
  /\ pending = 0
  /\ \E n \in 0..MaxBasket :
       \E f \in [1..n -> PriceWeights \X PriceChanges] :
         coinsRef = [i \in 1..n |-> PriceCoin(i, f[i][1], f[i][2])]
  /\ etfState = InitialEtfState(StartTime)
  /\ etfHistoryRef = <<>>
  /\ isConnected = FALSE
  /\ sockets = <<>>
  /\ advances = 0
  /\ nFrames = 0
  /\ nTicks = 0
  /\ rebalanceAt = <<>>
  /\ mounted = TRUE
  /\ last = Step("none")

NextPrice == CalcTick

SpecPrice == InitPrice /\ [][NextPrice]_vars

(***************************************************************************)
(* The candle aggregator from the epoch: updateCandleHistory is given up to *)
(* MaxSamples samples, the clock starting at 0 and moving by one of         *)
(* EpochDelays before each sample, the prices drawn from EpochPrices.       *)
(***************************************************************************)
EpochDelays == {0, CandleMs \div 2, CandleMs \div 2 + 5000}

EpochPrices == {Num(100), Num(105), Num(102)}

InitEpoch ==
  /\ now = 0
  /\ calcDue = CalcMs
  /\ pollDue = PollMs
  /\ pending = 0
  /\ coinsRef = <<>>
  /\ etfState = InitialEtfState(0)
  /\ etfHistoryRef = <<>>
  /\ isConnected = FALSE
  /\ sockets = <<>>
  /\ advances = 0
  /\ nFrames = 0
  /\ nTicks = 0
  /\ rebalanceAt = <<>>
  /\ mounted = TRUE
  /\ last = Step("none")

SampleAt(d, price) ==
  /\ nTicks < MaxSamples
  /\ nTicks' = nTicks + 1
  /\ now' = now + d
  /\ etfHistoryRef' = updateCandleHistory(etfHistoryRef, now + d, price)
  /\ last' = Step("tick")
  /\ UNCHANGED <<calcDue, pollDue, pending, coinsRef, etfState,
                 isConnected, sockets, advances, nFrames, rebalanceAt, mounted>>

NextEpoch == \E d \in EpochDelays : \E price \in EpochPrices : SampleAt(d, price)

SpecEpoch == InitEpoch /\ [][NextEpoch]_vars

(***************************************************************************)
(* Claims                                                                  *)
(***************************************************************************)
CandleInRange(c) ==
  /\ Leq(c.low, c.open) /\ Leq(c.open, c.high)
  /\ Leq(c.low, c.close) /\ Leq(c.close, c.high)

\* C1: every candle of the history has low <= open <= high and
\* low <= close <= high, a candle just opened with the previous close as its
\* open included.
C1_CandlesInRange ==
  \A i \in 1..Len(etfHistoryRef) : CandleInRange(etfHistoryRef[i])

\* C2: every step that changes the index state leaves highPrice no lower and
\* lowPrice no higher than before, with lowPrice <= currentPrice <= highPrice
\* and lowPrice <= openPrice <= highPrice afterwards.
C2_IndexBoundsWiden ==
  [][etfState' # etfState =>
       /\ Leq(etfState.highPrice, etfState'.highPrice)
       /\ Leq(etfState'.lowPrice, etfState.lowPrice)
       /\ Leq(etfState'.lowPrice, etfState'.currentPrice)
       /\ Leq(etfState'.currentPrice, etfState'.highPrice)
       /\ Leq(etfState'.lowPrice, etfState'.openPrice)
       /\ Leq(etfState'.openPrice, etfState'.highPrice)]_vars

\* C3: right after a bootstrap with a non-empty snapshot, every weight is
\* volume24h over the total volume of the basket and the weights sum to 1.
C3_WeightsSumToOne ==
  (last.op = "init" /\ Len(coinsRef) > 0) =>
    /\ Sum(Weights(coinsRef)) = Num(1)
    /\ \A i \in 1..Len(coinsRef) :
         LET total == Sum([j \in 1..Len(coinsRef) |-> coinsRef[j].volume24h])
         IN /\ IsFin(total) /\ Sign(total) > 0
            /\ coinsRef[i].weight = Div(coinsRef[i].volume24h, total)

\* C4: every step leaves at most 100 candles in the history, and a sample of
\* a new bucket that arrives when the history holds 100 candles drops the
\* first candle and appends the new one behind the other 99, in order.
C4_HistoryKeepsLast100 ==
  [][/\ Len(etfHistoryRef') <= MaxCandles
     /\ (/\ Len(etfHistoryRef) = MaxCandles
         /\ last'.op = "tick"
         /\ TimeBucket(now') # etfHistoryRef[MaxCandles].time)
        => /\ Len(etfHistoryRef') = MaxCandles
           /\ SubSeq(etfHistoryRef', 1, MaxCandles - 1) = Tail(etfHistoryRef)
           /\ etfHistoryRef'[MaxCandles].time = TimeBucket(now')]_vars

\* C4 witness: the history is full and its first candles have been dropped.
C4_Evicted ==
  /\ Len(etfHistoryRef) = MaxCandles
  /\ etfHistoryRef[1].time > TimeBucket(StartTime) + CandleMs
  /\ etfHistoryRef[MaxCandles].time = TimeBucket(now)

\* C5: the times of the candles increase strictly from the first to the
\* last, each is the start of a 60000 ms bucket, and the candle a sample has
\* just written is the one of the bucket of the sample's timestamp.
C5_TimesStrictlyIncrease ==
  /\ \A i \in 1..Len(etfHistoryRef) :
       /\ etfHistoryRef[i].time % CandleMs = 0
       /\ etfHistoryRef[i].time <= now
       /\ i > 1 => etfHistoryRef[i - 1].time < etfHistoryRef[i].time
  /\ last.op = "tick" =>
       /\ Len(etfHistoryRef) > 0
       /\ etfHistoryRef[Len(etfHistoryRef)].time = (now \div 60000) * 60000

\* C5 witness: three candles, a bucket without samples between two of them,
\* and the last one updated in place by a second sample of its bucket.
C5_ThreeCandlesWithGap ==
  /\ Len(etfHistoryRef) = 3
  /\ etfHistoryRef[2].time - etfHistoryRef[1].time > CandleMs
  /\ last.op = "tick"
  /\ etfHistoryRef[3].high # etfHistoryRef[3].low

FrameIsFinite(data) == IsFin(parseFloat(data.c)) /\ IsFin(PercentChange(data))

FrameIsKnown(cs, data) == \E i \in 1..Len(cs) : cs[i].pair = data.s

\* a step that delivers a frame
FrameStep == nFrames' = nFrames + 1 /\ last'.op = "frame"

\* C6: a frame whose price or percent change is NaN, +Infinity or -Infinity
\* leaves the store as it was.
C6_NonFiniteFrameDiscarded ==
  [][(FrameStep /\ ~FrameIsFinite(last'.frame)) => coinsRef' = coinsRef]_vars

\* C7: a frame whose pair is the pair of no constituent of the basket leaves
\* the store as it was.
C7_UnknownPairDiscarded ==
  [][(FrameStep /\ ~FrameIsKnown(coinsRef, last'.frame)) => coinsRef' = coinsRef]_vars

\* C7 witness: the last step delivered a frame with a finite price and change
\* whose pair the basket does not hold (a frame of the socket of the basket
\* that the rebalance replaced).
C7_UnknownPairDelivered ==
  /\ last.op = "frame"
  /\ FrameIsFinite(last.frame)
  /\ Len(coinsRef) > 0
  /\ ~FrameIsKnown(coinsRef, last.frame)

\* C8: a frame delivered right after the same frame leaves the store as the
\* first delivery left it.
C8_SameFrameTwice ==
  [][(FrameStep /\ last'.rep) => coinsRef' = coinsRef]_vars

\* C8 witness: the same frame was delivered twice in succession and the store
\* holds its price and change.
C8_AcceptedTwice ==
  /\ last.op = "frame"
  /\ last.rep
  /\ \E i \in 1..Len(coinsRef) :
       /\ coinsRef[i].pair = last.frame.s
       /\ coinsRef[i].price = Num(110)
       /\ coinsRef[i].change24h = Num(10)

RebalanceMinute == RebalanceHour * 3600000

InRebalanceMinute(t) == RebalanceMinute <= t /\ t < RebalanceMinute + 60000

\* C9: the poll calls init exactly once in the minute that reads 16:00 UTC:
\* never twice in it, and once a poll has run after the end of the minute
\* (its next run is due two periods or more after the minute began) one of
\* the polls has called it in the minute.
C9_RebalanceExactlyOnce ==
  /\ Cardinality({i \in 1..Len(rebalanceAt) : InRebalanceMinute(rebalanceAt[i])}) <= 1
  /\ pollDue >= RebalanceMinute + 2 * PollMs =>
       \E i \in 1..Len(rebalanceAt) : InRebalanceMinute(rebalanceAt[i])

\* C10: at most one socket is open at any moment.
C10_OneOpenSocket ==
  Cardinality({i \in 1..Len(sockets) : sockets[i].state = "open"}) <= 1

\* C11: once the component is unmounted every socket is closed, and no step
\* changes the store, the index state or the candle history, runs the
\* calculation loop or calls init from the poll.
C11_TeardownStopsEverything ==
  [][/\ ~mounted' => \A i \in 1..Len(sockets') : sockets'[i].state = "closed"
     /\ ~mounted =>
          /\ coinsRef' = coinsRef
          /\ etfState' = etfState
          /\ etfHistoryRef' = etfHistoryRef
          /\ nTicks' = nTicks
          /\ rebalanceAt' = rebalanceAt]_vars

\* C12: a frame delivered by the socket of an earlier bootstrap than the one
\* that built the store leaves the store as it was.
C12_OldGenerationDiscarded ==
  [][(FrameStep /\ last'.sock < Len(sockets)) => coinsRef' = coinsRef]_vars

\* the index state and every candle are at the base value
PinnedAtBase ==
  /\ etfState.currentPrice = Num(BASE_INDEX_VALUE)
  /\ etfState.highPrice = Num(BASE_INDEX_VALUE)
  /\ etfState.lowPrice = Num(BASE_INDEX_VALUE)
  /\ \A i \in 1..Len(etfHistoryRef) :
       /\ etfHistoryRef[i].open = Num(BASE_INDEX_VALUE)
       /\ etfHistoryRef[i].high = Num(BASE_INDEX_VALUE)
       /\ etfHistoryRef[i].low = Num(BASE_INDEX_VALUE)
       /\ etfHistoryRef[i].close = Num(BASE_INDEX_VALUE)

\* a step that runs the calculation loop
TickStep == nTicks' = nTicks + 1

\* C13: a bootstrap whose fetch failed leaves the basket empty; while no
\* bootstrap but the initial one has completed and the basket is empty, the
\* index is at the base value and so is every candle; and every step that
\* finds and leaves the basket empty keeps them there.
C13_EmptyBasketStaysAtBase ==
  [][/\ last'.op = "initFailed" => coinsRef' = <<>>
     /\ (Len(sockets') <= 1 /\ coinsRef' = <<>>) => PinnedAtBase'
     /\ (coinsRef = <<>> /\ coinsRef' = <<>> /\ PinnedAtBase) => PinnedAtBase']_vars

\* C13 witness: the calculation loop has just run on the empty basket that the
\* failed initial fetch left.
C13_TickedOnEmptyBasket ==
  /\ last.op = "tick"
  /\ Len(sockets) = 1
  /\ coinsRef = <<>>
  /\ nTicks = MaxTicks

\* C14: a bootstrap whose fetch failed leaves the basket empty, and every run
\* of the calculation loop that finds the basket empty leaves currentPrice at
\* the base value.
C14_FailedFetchPinsPrice ==
  [][/\ last'.op = "initFailed" => coinsRef' = <<>>
     /\ (TickStep /\ coinsRef = <<>>) =>
          etfState'.currentPrice = Num(BASE_INDEX_VALUE)]_vars

\* the sum of xs[i], ..., xs[Len(xs)], from the last term inward
RECURSIVE SumFrom(_, _)
SumFrom(xs, i) ==
  IF i > Len(xs) THEN Num(0) ELSE Add(xs[i], SumFrom(xs, i + 1))

\* basePrice * (1 + avgChange / 100), avgChange being the sum of
\* weight * change24h over the sum of the weights, or over 1 when that is zero
ExpectedPrice(cs, basePrice) ==
  LET sumWeightChange ==
        SumFrom([i \in 1..Len(cs) |-> Mul(cs[i].weight, cs[i].change24h)], 1)
      sumWeight == SumFrom([i \in 1..Len(cs) |-> cs[i].weight], 1)
      divisor == IF sumWeight = Num(0) THEN Num(1) ELSE sumWeight
      avgChange == Div(sumWeightChange, divisor)
  IN Mul(basePrice, Add(Num(1), Div(avgChange, Num(100))))

\* weights 0.6 and 0.4 with changes 2.0 and -1.0
ExampleBasket ==
  <<PriceCoin(1, Frac(3, 5), Num(2)), PriceCoin(2, Frac(2, 5), Num(-1))>>

\* C15: calculateEtfPrice of the store is basePrice * (1 + avgChange / 100),
\* the price a run of the calculation loop has just written is that value,
\* and for weights 0.6 and 0.4 with changes 2.0 and -1.0 it is 1008.
C15_PriceIsWeightedAverage ==
  /\ calculateEtfPrice(coinsRef, Num(BASE_INDEX_VALUE))
       = ExpectedPrice(coinsRef, Num(BASE_INDEX_VALUE))
  /\ (last.op = "tick" /\ Len(coinsRef) > 0) =>
       etfState.currentPrice = ExpectedPrice(coinsRef, Num(BASE_INDEX_VALUE))
  /\ (last.op = "tick" /\ coinsRef = ExampleBasket) =>
       etfState.currentPrice = Num(1008)

\* C15 witness: the calculation loop has priced the example basket at 1008.
C15_ExamplePriced ==
  /\ last.op = "tick"
  /\ coinsRef = ExampleBasket
  /\ etfState.currentPrice = Num(1008)

Candle(time, open, high, low, close) ==
  [time |-> time, open |-> Num(open), high |-> Num(high),
   low |-> Num(low), close |-> Num(close)]

\* C16: after three samples from the empty history, of prices 100 and 105 in
\* the bucket of 0 and of price 102 at 65000, the history is the two candles
\* {0, 100, 105, 100, 105} and {60000, 105, 105, 102, 102}.
C16_ExampleCandles ==
  (/\ nTicks = 3
   /\ now = 65000
   /\ Len(etfHistoryRef) = 2
   /\ etfHistoryRef[1] = Candle(0, 100, 105, 100, 105)
   /\ etfHistoryRef[2].time = 60000
   /\ etfHistoryRef[2].close = Num(102))
  => etfHistoryRef = <<Candle(0, 100, 105, 100, 105), Candle(60000, 105, 105, 102, 102)>>

\* C17: right after a bootstrap with a non-empty snapshot whose volumes sum
\* to zero, every constituent has the weight 1/n, a finite number in [0, 1].
C17_ZeroVolumeEqualWeights ==
  (/\ last.op = "init"
   /\ Len(coinsRef) > 0
   /\ Sum([i \in 1..Len(coinsRef) |-> coinsRef[i].volume24h]) = Num(0))
  => \A i \in 1..Len(coinsRef) :
       /\ coinsRef[i].weight = Frac(1, Len(coinsRef))
       /\ IsFin(coinsRef[i].weight)
       /\ Leq(Num(0), coinsRef[i].weight)
       /\ Leq(coinsRef[i].weight, Num(1))

\* the handler accepts the frame: the store holds its pair and the frame
\* passes the handler's validity check
FrameIsAccepted(cs, data) ==
  FrameIsKnown(cs, data) /\ Valid(parseFloat(data.c), PercentChange(data))

\* C18: an accepted frame for pair p sets the price and change24h of the
\* constituent with pair p to the frame's values and leaves its symbol, pair,
\* volume24h and weight, every other constituent, the size and order of the
\* basket, the index state and the candle history as they were; and only a
\* bootstrap changes the weights.
C18_FrameWritesPriceAndChange ==
  [][/\ (FrameStep /\ FrameIsAccepted(coinsRef, last'.frame)) =>
          /\ Len(coinsRef') = Len(coinsRef)
          /\ \A j \in 1..Len(coinsRef) :
               IF coinsRef[j].pair = last'.frame.s
                 THEN coinsRef'[j] =
                        [coinsRef[j] EXCEPT !.price = parseFloat(last'.frame.c),
                                            !.change24h = PercentChange(last'.frame)]
                 ELSE coinsRef'[j] = coinsRef[j]
          /\ etfState' = etfState
          /\ etfHistoryRef' = etfHistoryRef
     /\ Weights(coinsRef') # Weights(coinsRef) => last'.op \in {"init", "initFailed"}]_vars

\* C18 witness: an accepted frame of price 110 has just been written to its
\* constituent, while another constituent keeps the price 90 that an earlier
\* frame for its pair wrote.
C18_TwoPairsWritten ==
  /\ last.op = "frame"
  /\ FrameIsAccepted(coinsRef, last.frame)
  /\ \E i, j \in 1..Len(coinsRef) :
       /\ coinsRef[i].pair = last.frame.s
       /\ coinsRef[i].price = Num(110)
       /\ coinsRef[j].pair # last.frame.s
       /\ coinsRef[j].price = Num(90)
       /\ coinsRef[j].change24h = Num(-10)

\* C19: a step that changes the history either rewrites its last candle,
\* keeping that candle's time and open and every earlier candle, or appends
\* one candle behind the candles it had (less the first one when it was
\* full), the new candle's open being the close of the candle before it, or
\* the sample price, which is its close, when there was none.
C19_EarlierCandlesKept ==
  [][etfHistoryRef' # etfHistoryRef =>
       LET h == etfHistoryRef
           g == etfHistoryRef'
           n == Len(h)
           m == Len(g)
       IN \/ /\ n > 0 /\ m = n
             /\ \A i \in 1..(n - 1) : g[i] = h[i]
             /\ g[n].time = h[n].time
             /\ g[n].open = h[n].open
          \/ /\ m > 0
             /\ \/ SubSeq(g, 1, m - 1) = h
                \/ n = MaxCandles /\ SubSeq(g, 1, m - 1) = Tail(h)
             /\ g[m].open = (IF n > 0 THEN h[n].close ELSE g[m].close)]_vars

\* C19 witness: a second candle has just been opened at the close of the
\* first, which two samples of different prices had written, and at a price
\* other than that close.
C19_SecondCandleOpened ==
  /\ last.op = "tick"
  /\ Len(etfHistoryRef) = 2
  /\ etfHistoryRef[1].high # etfHistoryRef[1].low
  /\ etfHistoryRef[2].open = etfHistoryRef[1].close
  /\ etfHistoryRef[2].close # etfHistoryRef[2].open
  /\ etfHistoryRef[2].high = etfHistoryRef[2].low

\* the price and the change that each frame the handler accepts carries
FrameValues ==
  { <<parseFloat(sh.c), PercentChange(sh)>> :
      sh \in {x \in FrameShapes : Valid(parseFloat(x.c), PercentChange(x))} }

\* the price and the change of constituent c come together from the
\* constituent ic of a snapshot or from one frame that the handler accepts
FromOneSource(c, ic) ==
  \/ c.price = ic.price /\ c.change24h = ic.change24h
  \/ <<c.price, c.change24h>> \in FrameValues

\* the baskets that init builds from the answers of the fetch
SnapshotBaskets == {InitialCoins(fetchTop50Coins(resp)) : resp \in Responses}

\* C20: the store is at every moment the basket of one snapshot, each
\* constituent carrying the price and change of that snapshot or of one
\* frame, and the price a run of the calculation loop has just written is
\* the price of the store as it stands.
C20_SnapshotNotTorn ==
  /\ \E ic \in SnapshotBaskets :
          /\ Len(coinsRef) = Len(ic)
          /\ \A i \in 1..Len(ic) :
               /\ coinsRef[i].symbol = ic[i].symbol
               /\ coinsRef[i].pair = ic[i].pair
               /\ coinsRef[i].volume24h = ic[i].volume24h
               /\ coinsRef[i].weight = ic[i].weight
               /\ FromOneSource(coinsRef[i], ic[i])
  /\ (last.op = "tick" /\ Len(coinsRef) > 0) =>
       etfState.currentPrice = calculateEtfPrice(coinsRef, Num(BASE_INDEX_VALUE))

\* C20 witness: the calculation loop has just read the store of the second
\* bootstrap, in which one constituent carries a frame's price and change
\* and another the snapshot's.
C20_TickReadMixedStore ==
  /\ last.op = "tick"
  /\ Len(sockets) = 2
  /\ \E i, j \in 1..Len(coinsRef) :
       /\ coinsRef[i].price = Num(110)
       /\ coinsRef[i].change24h = Num(10)
       /\ coinsRef[j].price = Num(100)

\* C21: a run of the calculation loop on a non-empty basket leaves the price
\* of the store, as one value (NaN included), in currentPrice and in the
\* close of the last candle, which is the candle of the bucket of the run's
\* time; it writes one sample, so the history keeps its length or grows by
\* one and the candles before its last one stay as they were; a run on an
\* empty basket changes neither the index state nor the history.
C21_CloseIsCurrentPrice ==
  [][TickStep =>
       LET h == etfHistoryRef
           g == etfHistoryRef'
       IN IF Len(coinsRef) > 0
            THEN /\ etfState'.currentPrice
                      = calculateEtfPrice(coinsRef, Num(BASE_INDEX_VALUE))
                 /\ Len(g) > 0
                 /\ g[Len(g)].close = etfState'.currentPrice
                 /\ g[Len(g)].time = TimeBucket(now')
                 /\ Len(g) \in {Len(h), Len(h) + 1}
                 /\ Len(h) < MaxCandles => \A i \in 1..(Len(h) - 1) : g[i] = h[i]
            ELSE etfState' = etfState /\ g = h]_vars

\* C21 witness: the second run of the loop has just opened a second candle
\* at a finite price other than the base value and other than the close of
\* the first candle.
C21_SecondTickNewPrice ==
  /\ last.op = "tick"
  /\ Len(coinsRef) > 0
  /\ Len(etfHistoryRef) = 2
  /\ IsFin(etfState.currentPrice)
  /\ etfState.currentPrice # Num(BASE_INDEX_VALUE)
  /\ etfHistoryRef[2].close = etfState.currentPrice
  /\ etfHistoryRef[2].close # etfHistoryRef[1].close

\* C22: isConnected is true exactly when the socket of the most recent
\* bootstrap is open, and false while no bootstrap has completed.
C22_FlagFollowsCurrentSocket ==
  mounted =>
    isConnected = (Len(sockets) > 0 /\ sockets[Len(sockets)].state = "open")

====
